---- MODULE Spec2Model ----
(***************************************************************************)
(* Model of the multi-agent workflow orchestrator                          *)
(* (src/src/multi_agent/orchestrator.py, src/src/multi_agent/agents.py).   *)
(*                                                                         *)
(* One Workflow object owned by one WorkflowOrchestrator.  run_workflow is *)
(* cut at its backend calls: every generation call and every knowledge     *)
(* search is an input whose outcome is chosen from a small set.            *)
(***************************************************************************)
EXTENDS Integers, Sequences, FiniteSets, TLC

VARIABLES
    state,                 \* workflow.state (WorkflowState value)
    steps,                 \* workflow.steps
    conversation_history,  \* workflow.conversation_history
    final_output,          \* workflow.final_output
    iteration_count,       \* workflow.iteration_count
    max_iterations,        \* workflow.max_iterations
    search_client,         \* AgentExecutor.search_client is set
    pc,                    \* position of the caller / of run_workflow
    idx,                   \* position of "for step in workflow.steps"
    context,               \* local "context" of the running _execute_step
    revision_needed,       \* last value returned by _check_if_revision_needed
    runs,                  \* number of run_workflow calls made so far
    faults,                \* number of backend calls that have raised so far
    stream_callback,       \* run_workflow was given a stream_callback
    events,                \* the list the stream_callback appends to
    summary,               \* last value get_workflow_summary returned
    last_sent,             \* event_generator: number of events yielded
    sent,                  \* what event_generator has yielded so far
    gen,                   \* position of event_generator
    workflow_steps,        \* _plan_workflow: the agent names of the plan's
                           \* workflow_steps the loop of line 195 went through
    mode,                  \* "off", or the backends "record" what they
                           \* return, or "replay" it to a second workflow
    replies,               \* the returns of the backends, in call order
    cursor,                \* number of recorded returns replayed so far
    searches,              \* the roles during whose execute call
                           \* search_client.search was called
    first_run              \* how the run of the first workflow ended

vars == <<state, steps, conversation_history, final_output, iteration_count,
          max_iterations, search_client, pc, idx, context, revision_needed, runs,
          faults, stream_callback, events, summary, last_sent, sent, gen,
          workflow_steps, mode, replies, cursor, searches, first_run>>

\* what run_workflow never writes: its caller's variables
caller_vars == <<stream_callback, summary, last_sent, sent, gen, mode, first_run>>

\* what only a backend call writes
backend_vars == <<replies, cursor, searches>>

(***************************************************************************)
(* Bounds of the model.                                                    *)
(***************************************************************************)
MaxIter == 2
MaxFaults == 1
MaxRuns == 2

(***************************************************************************)
(* agents.py: AgentRole and the agent catalog.                             *)
(***************************************************************************)
AgentRole ==
    [ORCHESTRATOR |-> "orchestrator", TRIAGE |-> "triage", RESEARCH |-> "research",
     COMPLIANCE |-> "compliance", REVIEW |-> "review", OUTPUT |-> "output"]

Roles == {AgentRole[n] : n \in DOMAIN AgentRole}

\* a configuration that lets every agent query the knowledge base
can_query_knowledge_for_all(role) == role \in Roles

can_query_knowledge(role) == role \in {"triage", "research", "compliance"}

\* str.upper() on the agent names the model's replies use
upper(name) ==
    CASE name = "research"   -> "RESEARCH"
      [] name = "compliance" -> "COMPLIANCE"
      [] name = "review"     -> "REVIEW"
      [] name = "output"     -> "OUTPUT"
      [] name = "auditor"    -> "AUDITOR"
      [] OTHER               -> name

\* item.get("agent", "RESEARCH").upper(); AgentRole[...] except KeyError
MissingKey == "<missing>"

\* a lookup that hands an unknown name to the triage role
role_of_name_triage(name) ==
    LET n == upper(IF name = MissingKey THEN "RESEARCH" ELSE name)
    IN  IF n \in DOMAIN AgentRole THEN AgentRole[n] ELSE AgentRole.TRIAGE

role_of_name(name) ==
    LET n == upper(IF name = MissingKey THEN "RESEARCH" ELSE name)
    IN  IF n \in DOMAIN AgentRole THEN AgentRole[n] ELSE AgentRole.RESEARCH

(***************************************************************************)
(* Values.  A reply text is a number: EmptyString is "", n > 0 is the text *)
(* of the generation call made for step n.  NoneValue is Python's None.    *)
(***************************************************************************)
NoneValue == -1
EmptyString == 0

\* json.loads(content): "none" is a text that is no JSON (parsed = None),
\* "empty" is {}, "nonobj" is a non-empty JSON value that is no object (a
\* list, a number, a string), "obj" is a non-empty object.  A key the object
\* lacks reads as its .get default: [] for the two lists, "absent" for
\* ready_for_output.
Parsed(kind, ws, work, ready) ==
    [kind |-> kind, workflow_steps |-> ws, additional_work_needed |-> work,
     ready_for_output |-> ready]

ParsedNone == Parsed("none", <<>>, <<>>, "absent")
ParsedEmpty == Parsed("empty", <<>>, <<>>, "absent")
ParsedNonObject == Parsed("nonobj", <<>>, <<>>, "absent")

\* bool(parsed) and isinstance(parsed, dict)
Truthy(p) == p.kind \in {"nonobj", "obj"}
IsDict(p) == p.kind \in {"empty", "obj"}

\* parsed.get("ready_for_output", True)
get_ready_for_output(p) ==
    IF p.ready_for_output = "absent" THEN TRUE ELSE p.ready_for_output = "true"

(***************************************************************************)
(* Replies of the generation backend: ok = FALSE is a raised exception.    *)
(***************************************************************************)
Response(ok, content, parsed) == [ok |-> ok, content |-> content, parsed |-> parsed]

\* the "agent" values of the planner's workflow_steps and of the reviewer's
\* additional_work_needed; every item is an object, its agent a string or
\* missing
PlanChoices ==
    { <<>>,
      <<"auditor", "REVIEW">>,
      <<"research", "OUTPUT">>,
      <<MissingKey, "REVIEW", "REVIEW">> }

WorkChoices ==
    { <<>>, <<"RESEARCH">>, <<"compliance", "auditor">> }

PlannerParsed ==
    {ParsedNone, ParsedEmpty, ParsedNonObject}
    \cup {Parsed("obj", ws, <<>>, "absent") : ws \in PlanChoices}

ReviewParsed ==
    {ParsedNone, ParsedNonObject}
    \cup {Parsed("obj", <<>>, w, "false") : w \in WorkChoices}
    \cup {Parsed("obj", <<>>, <<>>, "true"), Parsed("obj", <<>>, <<>>, "absent")}

OtherParsed == {ParsedNone}

ParsedFor(role) ==
    CASE role = "orchestrator" -> PlannerParsed
      [] role = "review"       -> ReviewParsed
      [] OTHER                 -> OtherParsed

Responses(role, content) ==
    {Response(FALSE, EmptyString, ParsedNone)}
    \cup {Response(TRUE, content, p) : p \in ParsedFor(role)}

\* outcomes of search_client.search: rows, or an exception
SearchOutcomes == {"results", "error"}

(***************************************************************************)
(* orchestrator.py: WorkflowStep, AgentExecutor.                           *)
(***************************************************************************)
\* {} as output_data
EmptyDict ==
    [agent |-> "", success |-> FALSE, raw_response |-> EmptyString,
     parsed |-> ParsedNone, error |-> ""]

\* knowledge: what AgentExecutor.execute did with the knowledge base during
\* the step ("not_called" before the step runs and when it was not queried)
WorkflowStep(step_id, agent, instruction) ==
    [step_id |-> step_id, agent |-> agent, instruction |-> instruction,
     status |-> "pending", output_data |-> EmptyDict, error |-> "None",
     knowledge |-> "not_called"]

\* _query_knowledge_base: [] without a client, [] on an exception
query_knowledge_base(client, outcome) ==
    IF ~client THEN "no_client" ELSE outcome

\* the knowledge-base part of execute (lines 104-108)
execute_knowledge(role, knowledge_query, client, outcome) ==
    IF can_query_knowledge(role) /\ knowledge_query
    THEN query_knowledge_base(client, outcome)
    ELSE "not_called"

\* the generation part of execute (lines 126-158); a result without the
\* key raw_response reads as "" through .get("raw_response", "")
execute(role, response) ==
    IF response.ok
    THEN [agent |-> role, success |-> TRUE, raw_response |-> response.content,
          parsed |-> response.parsed, error |-> ""]
    ELSE [agent |-> role, success |-> FALSE, raw_response |-> EmptyString,
          parsed |-> ParsedNone, error |-> "backend error"]

(***************************************************************************)
(* orchestrator.py: WorkflowOrchestrator, the pure parts.                  *)
(***************************************************************************)
Max(S) == CHOOSE m \in S : \A x \in S : x <= m

\* An operation that may raise returns [raised, value].
Return(v) == [raised |-> FALSE, value |-> v]
Raise(v) == [raised |-> TRUE, value |-> v]

\* the fixed sequence of _plan_workflow (lines 210-216)
DefaultSteps ==
    << WorkflowStep(1, AgentRole.TRIAGE, "default"),
       WorkflowStep(2, AgentRole.RESEARCH, "default"),
       WorkflowStep(3, AgentRole.COMPLIANCE, "default"),
       WorkflowStep(4, AgentRole.REVIEW, "default"),
       WorkflowStep(5, AgentRole.OUTPUT, "default") >>

\* _plan_workflow on the planner's result; plan.get on a value that is no
\* dict raises AttributeError
plan_workflow(result) ==
    IF result.success /\ Truthy(result.parsed)
    THEN IF ~IsDict(result.parsed)
         THEN Raise(<<>>)
         ELSE LET ws == result.parsed.workflow_steps
              IN  Return([i \in 1..Len(ws) |->
                            WorkflowStep(i, role_of_name(ws[i]), "planned")])
    ELSE Return(DefaultSteps)

\* a context loop that takes every step of the workflow, whatever its position
\* and output
gather_context_unfiltered(s, step_id) ==
    [r \in Roles |->
        LET from == {i \in 1..Len(s) : s[i].agent = r}
        IN  IF from = {} THEN 0 ELSE s[Max(from)].step_id]

\* the context loop of _execute_step (lines 226-229): context[role] is the
\* step_id of the step whose output_data the key role ends up holding, 0 when
\* the dict has no such key.  A later assignment to a key replaces an earlier.
gather_context(s, step_id) ==
    [r \in Roles |->
        LET from == {i \in 1..Len(s) :
                        /\ s[i].agent = r
                        /\ s[i].step_id < step_id
                        /\ s[i].output_data # EmptyDict}
        IN  IF from = {} THEN 0 ELSE s[Max(from)].step_id]

NoContext == [r \in Roles |-> 0]

\* _check_if_revision_needed (lines 267-277), scanning from position i
RECURSIVE check_from(_, _)
check_from(s, i) ==
    IF i > Len(s)
    THEN Return(FALSE)
    ELSE IF s[i].agent = AgentRole.REVIEW /\ s[i].output_data # EmptyDict
              /\ Truthy(s[i].output_data.parsed)
         THEN LET parsed == s[i].output_data.parsed
              IN  IF ~IsDict(parsed)
                  THEN Raise(FALSE)
                  ELSE Return(parsed.additional_work_needed # <<>>
                              \/ ~get_ready_for_output(parsed))
         ELSE check_from(s, i + 1)

\* a check that asks for a revision when no reviewer gave a verdict
check_if_revision_needed_wary(s) ==
    IF \A i \in 1..Len(s) :
          ~(s[i].agent = AgentRole.REVIEW /\ s[i].output_data # EmptyDict
            /\ Truthy(s[i].output_data.parsed))
    THEN Return(TRUE)
    ELSE check_from(s, 1)

check_if_revision_needed(s) == check_from(s, 1)

\* the work items _add_revision_steps collects from position i on
RECURSIVE work_items_from(_, _)
work_items_from(s, i) ==
    IF i > Len(s)
    THEN Return(<<>>)
    ELSE IF s[i].agent = AgentRole.REVIEW /\ s[i].output_data # EmptyDict
              /\ Truthy(s[i].output_data.parsed)
         THEN LET parsed == s[i].output_data.parsed
                  rest == work_items_from(s, i + 1)
              IN  IF ~IsDict(parsed) \/ rest.raised
                  THEN Raise(<<>>)
                  ELSE Return(parsed.additional_work_needed \o rest.value)
         ELSE work_items_from(s, i + 1)

\* a first step_id that takes the position of the last step again
next_step_id_reused(s) == Len(s)

\* the step_id of the first step _add_revision_steps creates (line 282)
next_step_id(s) == Len(s) + 1

\* _add_revision_steps (lines 279-311)
add_revision_steps(s) ==
    LET items == work_items_from(s, 1)
        first == next_step_id(s)
        work == [i \in 1..Len(items.value) |->
                    WorkflowStep(first + i - 1, role_of_name(items.value[i]), "revision")]
    IN  IF items.raised
        THEN Raise(<<>>)
        ELSE IF work = <<>>
             THEN Return(<<>>)
             ELSE Return(Append(work,
                     WorkflowStep(first + Len(work), AgentRole.REVIEW, "review again")))

\* an extension that puts the new steps in front of the old ones
extend_in_front(s, new_steps) == new_steps \o s

\* an extension made only when a callback was given
extend_if_callback(s, new_steps) == IF stream_callback THEN s \o new_steps ELSE s

\* line 350: workflow.steps.extend(new_steps)
extend(s, new_steps) == s \o new_steps

\* a summary that counts every step of the list as executed
get_workflow_summary_counting_all ==
    [state |-> state,
     iterations |-> iteration_count,
     steps_executed |-> Len(steps),
     steps_failed |-> Cardinality({i \in 1..Len(steps) : steps[i].status = "failed"}),
     agents_involved |-> {steps[i].agent : i \in 1..Len(steps)},
     final_output |-> final_output,
     conversation_history |-> conversation_history]

\* get_workflow_summary (lines 377-389)
get_workflow_summary ==
    [state |-> state,
     iterations |-> iteration_count,
     steps_executed |-> Cardinality({i \in 1..Len(steps) : steps[i].status = "completed"}),
     steps_failed |-> Cardinality({i \in 1..Len(steps) : steps[i].status = "failed"}),
     agents_involved |-> {steps[i].agent : i \in 1..Len(steps)},
     final_output |-> final_output,
     conversation_history |-> conversation_history]

\* how a run_workflow call has ended: where it stopped and the workflow it
\* left
RunEnd ==
    [pc |-> pc, state |-> state, iteration_count |-> iteration_count,
     steps |-> steps, conversation_history |-> conversation_history,
     final_output |-> final_output]

NoRun ==
    [pc |-> "none", state |-> "none", iteration_count |-> 0, steps |-> <<>>,
     conversation_history |-> <<>>, final_output |-> NoneValue]

\* the caller's variable before get_workflow_summary has returned
NoSummary ==
    [state |-> "none", iterations |-> 0, steps_executed |-> 0, steps_failed |-> 0,
     agents_involved |-> {}, final_output |-> NoneValue,
     conversation_history |-> <<>>]

\* "if stream_callback: stream_callback(type, message)"; the callback of
\* stream_workflow appends the event to events (api.py lines 185-190)
callback(type, message) ==
    IF stream_callback
    THEN Append(events, [type |-> type, message |-> message])
    ELSE events

(***************************************************************************)
(* _execute_step (lines 220-265), cut at the executor call.                *)
(***************************************************************************)
\* lines 222-237: the step is in progress and its context is gathered
execute_step_begin(s, i) == [s EXCEPT ![i].status = "in_progress"]

\* a recording that fails the step when its knowledge search raised
execute_step_end_strict(s, i, knowledge, result) ==
    IF result.success /\ knowledge # "error"
    THEN [s EXCEPT ![i].status = "completed", ![i].output_data = result,
                   ![i].knowledge = knowledge]
    ELSE [s EXCEPT ![i].status = "failed", ![i].error = "search error",
                   ![i].knowledge = knowledge]

\* lines 247-254: the result of the executor is recorded on the step
execute_step_end(s, i, knowledge, result) ==
    IF result.success
    THEN [s EXCEPT ![i].status = "completed", ![i].output_data = result,
                   ![i].knowledge = knowledge]
    ELSE [s EXCEPT ![i].status = "failed", ![i].error = result.error,
                   ![i].knowledge = knowledge]

\* lines 257-263
history_entry(step, result) ==
    [step_id |-> step.step_id, agent |-> step.agent,
     instruction |-> step.instruction, result |-> result]

\* a log that keeps the successful steps only
append_history_on_success(history, step, result) ==
    IF result.success THEN Append(history, history_entry(step, result)) ELSE history

\* lines 256-263: workflow.conversation_history.append(...), whatever the
\* result
append_history(history, step, result) == Append(history, history_entry(step, result))

(***************************************************************************)
(* State after create_workflow, with max_iterations set by the caller      *)
(* (api.py line 133).                                                      *)
(***************************************************************************)
Init ==
    /\ state = "pending"
    /\ steps = <<>>
    /\ conversation_history = <<>>
    /\ final_output = NoneValue
    /\ iteration_count = 0
    /\ max_iterations \in 1..MaxIter
    /\ search_client \in BOOLEAN
    /\ pc = "idle"
    /\ idx = 0
    /\ context = NoContext
    /\ revision_needed = FALSE
    /\ runs = 0
    /\ faults = 0
    /\ stream_callback = FALSE
    /\ events = <<>>
    /\ summary = NoSummary
    /\ last_sent = 0
    /\ sent = <<>>
    /\ gen = "none"
    /\ workflow_steps = <<>>
    /\ mode = "off"
    /\ replies = <<>>
    /\ cursor = 0
    /\ searches = {}
    /\ first_run = NoRun

\* The backends raise at most MaxFaults times in a behaviour: searched is 1
\* when the knowledge search of the call raised, and a response that is not
\* ok is a generation call that raised.
Budget(searched, response) ==
    LET n == searched + (IF response.ok THEN 0 ELSE 1)
    IN  faults + n <= MaxFaults /\ faults' = faults + n

\* The backends of the execute call of a role: knowledge is what the
\* search did, if called, and response what the generation call did.  A
\* recording run keeps them in call order, a replaying run is given the
\* recorded ones again, in that order.
Backend(role, knowledge, response) ==
    LET reply == [knowledge |-> knowledge, response |-> response]
    IN  /\ searches' = IF knowledge \in {"results", "error"}
                       THEN searches \cup {role}
                       ELSE searches
        /\ CASE mode = "record" ->
                  replies' = Append(replies, reply) /\ UNCHANGED cursor
             [] mode = "replay" ->
                  /\ cursor < Len(replies)
                  /\ replies[cursor + 1] = reply
                  /\ cursor' = cursor + 1
                  /\ UNCHANGED replies
             [] OTHER -> UNCHANGED <<replies, cursor>>

(***************************************************************************)
(* run_workflow (lines 313-375).                                           *)
(***************************************************************************)
\* line 315: a caller enters run_workflow on the workflow just created
RunWorkflow ==
    /\ pc = "idle"
    /\ runs' = 1
    /\ state' = "in_progress"
    /\ pc' = "plan"
    /\ events' = callback("planning", <<>>)
    /\ UNCHANGED <<caller_vars, workflow_steps, backend_vars>>
    /\ UNCHANGED <<steps, conversation_history, final_output, iteration_count,
                   max_iterations, search_client, idx, context, revision_needed, faults>>

\* line 321: the planner is called and its plan replaces workflow.steps
PlanWorkflow ==
    /\ pc = "plan"
    /\ \E outcome \in SearchOutcomes :
       \E response \in Responses(AgentRole.ORCHESTRATOR, 1) :
         LET plan == plan_workflow(execute(AgentRole.ORCHESTRATOR, response))
             \* lines 185-188: execute is called without a knowledge_query
             knowledge == execute_knowledge(AgentRole.ORCHESTRATOR, FALSE,
                                            search_client, outcome)
         IN  /\ Budget(IF knowledge = "error" THEN 1 ELSE 0, response)
             /\ Backend(AgentRole.ORCHESTRATOR, knowledge, response)
             /\ IF plan.raised
                THEN pc' = "raised" /\ steps' = steps
                ELSE pc' = "while" /\ steps' = plan.value
             /\ workflow_steps' = IF response.ok /\ IsDict(response.parsed)
                                  THEN response.parsed.workflow_steps
                                  ELSE <<>>
    /\ UNCHANGED events
    /\ UNCHANGED caller_vars
    /\ UNCHANGED <<state, conversation_history, final_output, iteration_count,
                   max_iterations, search_client, idx, context, revision_needed, runs>>

\* a loop test that lets the count pass the cap
while_condition_inclusive == iteration_count <= max_iterations

\* line 324
while_condition == iteration_count < max_iterations

\* lines 324-325: the test of the while loop and the increment
WhileTest ==
    /\ pc = "while"
    /\ IF while_condition
       THEN /\ iteration_count' = iteration_count + 1
            /\ idx' = 1
            /\ pc' = "for"
       ELSE /\ pc' = "final"
            /\ UNCHANGED <<iteration_count, idx>>
    /\ UNCHANGED events
    /\ UNCHANGED <<caller_vars, workflow_steps, backend_vars>>
    /\ UNCHANGED <<state, steps, conversation_history, final_output,
                   max_iterations, search_client, context, revision_needed, runs, faults>>

\* a for loop without the test of the status
EveryStepFrom(i) == i..Len(steps)

\* a for loop that enters the failed steps again
PendingOrFailedFrom(i) ==
    {j \in i..Len(steps) : steps[j].status \in {"pending", "failed"}}

\* the positions the for loop has still to visit that hold a pending step
PendingFrom(i) == {j \in i..Len(steps) : steps[j].status = "pending"}

\* lines 327-335: the for loop passes the steps that are not pending and
\* enters _execute_step on the next pending one
ExecuteStepBegin ==
    /\ pc = "for"
    /\ PendingFrom(idx) # {}
    /\ LET j == CHOOSE k \in PendingFrom(idx) : \A m \in PendingFrom(idx) : k <= m
       IN  /\ idx' = j
           /\ steps' = execute_step_begin(steps, j)
           /\ context' = gather_context(steps, steps[j].step_id)
           /\ events' = callback("executing", <<steps[j].agent, steps[j].instruction>>)
    /\ pc' = "execute"
    /\ UNCHANGED <<caller_vars, workflow_steps, backend_vars>>
    /\ UNCHANGED <<state, conversation_history, final_output, iteration_count,
                   max_iterations, search_client, revision_needed, runs, faults>>

\* lines 240-265: the executor returns; the knowledge search and the
\* generation call are the inputs
ExecuteStepEnd ==
    /\ pc = "execute"
    /\ \E outcome \in SearchOutcomes :
       \E response \in Responses(steps[idx].agent, steps[idx].step_id) :
         LET role == steps[idx].agent
             knowledge == execute_knowledge(role, can_query_knowledge(role),
                                            search_client, outcome)
             result == execute(role, response)
         IN  /\ Budget(IF knowledge = "error" THEN 1 ELSE 0, response)
             /\ Backend(role, knowledge, response)
             /\ steps' = execute_step_end(steps, idx, knowledge, result)
             /\ events' = callback("step_complete",
                                   <<IF result.success THEN "ok" ELSE "x", role>>)
             /\ conversation_history' =
                    append_history(conversation_history, steps[idx], result)
    /\ idx' = idx + 1
    /\ pc' = "for"
    /\ UNCHANGED <<caller_vars, workflow_steps>>
    /\ UNCHANGED <<state, final_output, iteration_count, max_iterations,
                   search_client, context, revision_needed, runs>>

\* the for loop ends: no pending step is left to visit
ForEnd ==
    /\ pc = "for"
    /\ PendingFrom(idx) = {}
    /\ idx' = Len(steps) + 1
    /\ pc' = "check"
    /\ UNCHANGED events
    /\ UNCHANGED <<caller_vars, workflow_steps, backend_vars>>
    /\ UNCHANGED <<state, steps, conversation_history, final_output, iteration_count,
                   max_iterations, search_client, context, revision_needed, runs, faults>>

\* lines 345-353
CheckRevision ==
    /\ pc = "check"
    /\ LET needed == check_if_revision_needed(steps)
           new_steps == add_revision_steps(steps)
       IN  IF needed.raised
           THEN pc' = "raised" /\ UNCHANGED <<steps, state, revision_needed, events>>
           ELSE /\ revision_needed' = needed.value
                /\ IF needed.value
                   THEN /\ events' = callback("revision", <<>>)
                        /\ IF new_steps.raised
                           THEN pc' = "raised" /\ UNCHANGED <<steps, state>>
                           ELSE /\ steps' = extend(steps, new_steps.value)
                                /\ state' = "needs_revision"
                                /\ pc' = "while"
                   ELSE pc' = "final" /\ UNCHANGED <<steps, state, events>>
    /\ UNCHANGED <<caller_vars, workflow_steps, backend_vars>>
    /\ UNCHANGED <<conversation_history, final_output, iteration_count,
                   max_iterations, search_client, idx, context, runs, faults>>

\* line 356
\* a read of the key without its default: None when the step has no output
get_raw_response_no_default(output_data) ==
    IF output_data = EmptyDict THEN NoneValue ELSE output_data.raw_response

\* lines 358 and 368: output_data.get("raw_response", "")
get_raw_response(output_data) == output_data.raw_response

\* a selection that takes the output steps whatever their status
output_steps_any_status ==
    {i \in 1..Len(steps) : steps[i].agent = AgentRole.OUTPUT}

output_steps ==
    {i \in 1..Len(steps) : steps[i].agent = AgentRole.OUTPUT /\ steps[i].status = "completed"}

\* a closing assignment that reports the failure of the output step
state_after_output_strict(output_step) ==
    IF output_step.status = "failed" THEN "failed" ELSE "completed"

\* line 370: workflow.state = WorkflowState.COMPLETED, whatever became of
\* the output step
state_after_output(output_step) == "completed"

\* lines 357-358 and 370: an output step has completed
FinalOutput ==
    /\ pc = "final"
    /\ output_steps # {}
    /\ final_output' = get_raw_response(steps[Max(output_steps)].output_data)
    /\ state' = state_after_output(steps[Max(output_steps)])
    /\ pc' = "done"
    /\ events' = callback("complete", <<>>)
    /\ UNCHANGED <<caller_vars, workflow_steps, backend_vars>>
    /\ UNCHANGED <<steps, conversation_history, iteration_count, max_iterations,
                   search_client, idx, context, revision_needed, runs, faults>>

\* lines 361-367: no output step has completed, one is appended and entered
FinalStepBegin ==
    /\ pc = "final"
    /\ output_steps = {}
    /\ LET output_step == WorkflowStep(Len(steps) + 1, AgentRole.OUTPUT, "final")
           appended == Append(steps, output_step)
       IN  /\ steps' = execute_step_begin(appended, Len(appended))
           /\ context' = gather_context(appended, output_step.step_id)
           /\ idx' = Len(appended)
    /\ pc' = "final_execute"
    /\ UNCHANGED events
    /\ UNCHANGED <<caller_vars, workflow_steps, backend_vars>>
    /\ UNCHANGED <<state, conversation_history, final_output, iteration_count,
                   max_iterations, search_client, revision_needed, runs, faults>>

\* lines 367-370: the forced output step returns
FinalStepEnd ==
    /\ pc = "final_execute"
    /\ \E outcome \in SearchOutcomes :
       \E response \in Responses(steps[idx].agent, steps[idx].step_id) :
         LET role == steps[idx].agent
             knowledge == execute_knowledge(role, can_query_knowledge(role),
                                            search_client, outcome)
             result == execute(role, response)
             after == execute_step_end(steps, idx, knowledge, result)
         IN  /\ Budget(IF knowledge = "error" THEN 1 ELSE 0, response)
             /\ Backend(role, knowledge, response)
             /\ steps' = after
             /\ conversation_history' =
                    append_history(conversation_history, steps[idx], result)
             /\ final_output' = get_raw_response(after[idx].output_data)
             /\ state' = state_after_output(after[idx])
    /\ pc' = "done"
    /\ events' = callback("complete", <<>>)
    /\ UNCHANGED <<caller_vars, workflow_steps>>
    /\ UNCHANGED <<iteration_count, max_iterations, search_client, idx, context,
                   revision_needed, runs>>

\* api.py lines 133-139: the caller that run_workflow has returned to reads
\* the summary of the workflow
GetWorkflowSummary ==
    /\ pc = "done"
    /\ summary' = get_workflow_summary
    /\ pc' = "returned"
    /\ UNCHANGED <<state, steps, conversation_history, final_output, iteration_count,
                   max_iterations, search_client, idx, context, revision_needed, runs,
                   faults, stream_callback, events, last_sent, sent, gen,
                   workflow_steps, mode, replies, cursor, searches, first_run>>

\* the steps of run_workflow
Run ==
    \/ RunWorkflow
    \/ PlanWorkflow
    \/ WhileTest
    \/ ExecuteStepBegin
    \/ ExecuteStepEnd
    \/ ForEnd
    \/ CheckRevision
    \/ FinalOutput
    \/ FinalStepBegin
    \/ FinalStepEnd

Next == Run \/ GetWorkflowSummary

Spec == Init /\ [][Next]_vars

(***************************************************************************)
(* The caller calls run_workflow again on the workflow a former call has   *)
(* returned (line 315 on a workflow whose state is completed).             *)
(***************************************************************************)
RunWorkflowAgain ==
    /\ pc = "done"
    /\ runs < MaxRuns
    /\ runs' = runs + 1
    /\ state' = "in_progress"
    /\ pc' = "plan"
    /\ events' = callback("planning", <<>>)
    /\ UNCHANGED <<caller_vars, workflow_steps, backend_vars>>
    /\ UNCHANGED <<steps, conversation_history, final_output, iteration_count,
                   max_iterations, search_client, idx, context, revision_needed, faults>>

NextRerun == Next \/ RunWorkflowAgain

SpecRerun == Init /\ [][NextRerun]_vars


(***************************************************************************)
(* run_workflow runs on its own: each backend call returns or raises, and  *)
(* the code between two calls always goes on to the next one.              *)
(***************************************************************************)
LiveSpec == Spec /\ WF_vars(Next)

(***************************************************************************)
(* api.py, stream_workflow (lines 178-221): event_generator creates the    *)
(* workflow, starts run_workflow with its stream_callback on a thread and  *)
(* polls the list events the callback appends to.  The generator and the   *)
(* thread interleave at every step.                                        *)
(***************************************************************************)
\* lines 181-204, up to the first test of the polling loop.  The workflow
\* keeps the max_iterations create_workflow gave it, the cap of this model.
\* The backend calls of this specification return: their exceptions are
\* the subject of Spec.
InitStream ==
    /\ state = "pending"
    /\ steps = <<>>
    /\ conversation_history = <<>>
    /\ final_output = NoneValue
    /\ iteration_count = 0
    /\ max_iterations = MaxIter
    /\ search_client = FALSE
    /\ pc = "idle"
    /\ idx = 0
    /\ context = NoContext
    /\ revision_needed = FALSE
    /\ runs = 0
    /\ faults = MaxFaults
    /\ stream_callback = TRUE
    /\ events = <<>>
    /\ summary = NoSummary
    /\ last_sent = 0
    /\ sent = <<>>
    /\ gen = "outer"
    /\ workflow_steps = <<>>
    /\ mode = "off"
    /\ replies = <<>>
    /\ cursor = 0
    /\ searches = {}
    /\ first_run = NoRun

\* thread.is_alive(): run_workflow has neither returned nor raised
thread_is_alive == pc \notin {"done", "raised"}

\* result["workflow"] is set: run_workflow has returned the workflow
result_workflow == pc = "done"

\* a generator that yields the newest event of the list
latest_event(evs, n) == evs[Len(evs)]

\* line 208: events[last_sent], the list counted from 0
next_event(evs, n) == evs[n + 1]

\* the final event; its data is the summary
ResultEvent == [type |-> "result", message |-> <<>>]

\* line 205: the test of the outer loop; the loop goes on to the sleep, or
\* ends and lines 213-216 yield the result when the thread has set it
PollTest ==
    /\ gen = "outer"
    /\ IF thread_is_alive \/ last_sent < Len(events)
       THEN gen' = "inner" /\ UNCHANGED <<sent, summary>>
       ELSE /\ gen' = "closed"
            /\ IF result_workflow
               THEN /\ summary' = get_workflow_summary
                    /\ sent' = Append(sent, ResultEvent)
               ELSE UNCHANGED <<sent, summary>>
    /\ UNCHANGED <<state, steps, conversation_history, final_output, iteration_count,
                   max_iterations, search_client, pc, idx, context, revision_needed,
                   runs, faults, stream_callback, events, last_sent, workflow_steps,
                   mode, replies, cursor, searches, first_run>>

\* lines 207-210: the inner loop yields the next event, or ends
PollEvents ==
    /\ gen = "inner"
    /\ IF last_sent < Len(events)
       THEN /\ sent' = Append(sent, next_event(events, last_sent))
            /\ last_sent' = last_sent + 1
            /\ gen' = gen
       ELSE gen' = "outer" /\ UNCHANGED <<sent, last_sent>>
    /\ UNCHANGED <<state, steps, conversation_history, final_output, iteration_count,
                   max_iterations, search_client, pc, idx, context, revision_needed,
                   runs, faults, stream_callback, events, summary, workflow_steps,
                   mode, replies, cursor, searches, first_run>>

NextStream == Run \/ PollTest \/ PollEvents

SpecStream == InitStream /\ [][NextStream]_vars

\* the thread runs on its own (a non-daemon thread nobody joins or stops);
\* the generator advances only as long as its consumer reads, so no
\* fairness is stated for it
LiveStream == SpecStream /\ WF_vars(Run)

(***************************************************************************)
(* Two workflows for the same request: run_workflow(workflow, callback) on *)
(* the first with the backends recording what they return, then            *)
(* run_workflow(workflow) on a second one, created like the first, with    *)
(* the backends returning the same again.  One backend call of the first   *)
(* run may raise; the search backend is not configured.                    *)
(***************************************************************************)
InitReplay ==
    /\ state = "pending"
    /\ steps = <<>>
    /\ conversation_history = <<>>
    /\ final_output = NoneValue
    /\ iteration_count = 0
    /\ max_iterations = MaxIter
    /\ search_client = FALSE
    /\ pc = "idle"
    /\ idx = 0
    /\ context = NoContext
    /\ revision_needed = FALSE
    /\ runs = 0
    /\ faults = MaxFaults - 1
    /\ stream_callback = TRUE
    /\ events = <<>>
    /\ summary = NoSummary
    /\ last_sent = 0
    /\ sent = <<>>
    /\ gen = "none"
    /\ workflow_steps = <<>>
    /\ mode = "record"
    /\ replies = <<>>
    /\ cursor = 0
    /\ searches = {}
    /\ first_run = NoRun

\* the first call has returned or raised: create_workflow (lines 173-181)
\* makes the second workflow, which is run without a callback
SecondWorkflow ==
    /\ mode = "record"
    /\ pc \in {"done", "raised"}
    /\ first_run' = RunEnd
    /\ mode' = "replay"
    /\ cursor' = 0
    /\ stream_callback' = FALSE
    /\ state' = "pending"
    /\ steps' = <<>>
    /\ conversation_history' = <<>>
    /\ final_output' = NoneValue
    /\ iteration_count' = 0
    /\ pc' = "idle"
    /\ idx' = 0
    /\ context' = NoContext
    /\ revision_needed' = FALSE
    /\ runs' = 0
    /\ faults' = MaxFaults - 1
    /\ workflow_steps' = <<>>
    /\ UNCHANGED <<max_iterations, search_client, events, summary, last_sent, sent,
                   gen, replies, searches>>

NextReplay == Run \/ SecondWorkflow

SpecReplay == InitReplay /\ [][NextReplay]_vars

(***************************************************************************)
(* Properties.                                                             *)
(***************************************************************************)
StepIds == 1..Len(steps)
Executing == pc \in {"execute", "final_execute"}
Planned ==
    pc \in {"while", "for", "execute", "check", "final", "final_execute", "done",
            "returned"}

\* C1: after run_workflow has planned the workflow, workflow.steps is
\* non-empty, whatever the planner returned.
C1_StepsNonEmptyAfterPlanning == Planned => Len(steps) > 0

\* C2: workflow.iteration_count is at most workflow.max_iterations in every
\* state of a run.
C2_IterationBound == iteration_count <= max_iterations

\* the run is stopped by the cap while the reviewer still asks for more work
C2_Witness ==
    /\ pc = "final"
    /\ revision_needed
    /\ iteration_count = max_iterations
    /\ max_iterations = MaxIter

\* C3: every run_workflow call eventually reaches state completed.
C3_EventuallyCompleted == (pc = "plan") ~> (state = "completed")

\* the verdict of the most recent completed reviewer step with parsed output
ParsedReviews ==
    {i \in StepIds : /\ steps[i].agent = AgentRole.REVIEW
                     /\ steps[i].status = "completed"
                     /\ steps[i].output_data.parsed.kind = "obj"}

Verdict(i) ==
    LET parsed == steps[i].output_data.parsed
    IN  parsed.additional_work_needed # <<>> \/ ~get_ready_for_output(parsed)

\* C4: when the workflow holds several completed reviewer steps with parsed
\* output, the value _check_if_revision_needed returned is the verdict of
\* the last of them.
C4_LatestReviewGoverns ==
    (pc \in {"while", "final"} /\ Cardinality(ParsedReviews) >= 2)
        => revision_needed = Verdict(Max(ParsedReviews))

\* C5: a second run_workflow call on a workflow that has converged (the last
\* verdict is that no revision is needed) adds no entry to
\* workflow.conversation_history, so it executes no step.
C5_SecondRunAddsNothing ==
    [][(runs = 2 /\ ~revision_needed)
          => conversation_history' = conversation_history]_vars

\* C6: the context of the step being executed holds the output of every
\* completed step at a lower position.
C6_ContextHasEveryEarlierOutput ==
    Executing =>
        \A i \in StepIds :
            (steps[i].status = "completed" /\ steps[i].step_id < steps[idx].step_id)
                => context[steps[i].agent] = steps[i].step_id

\* C7: the context of the step being executed holds the output of no step at
\* a higher position.
C7_ContextHasNoLaterOutput ==
    Executing => \A r \in Roles : context[r] < steps[idx].step_id

\* a step with earlier outputs in its context runs while later steps wait
C7_Witness ==
    /\ pc = "execute"
    /\ idx < Len(steps)
    /\ \E r \in Roles : context[r] # 0

\* C8: the step_id values of workflow.steps are strictly increasing in list
\* order, so none is used twice.
C8_StepIdsIncreasing ==
    \A i, j \in StepIds : i < j => steps[i].step_id < steps[j].step_id

\* a finished run that holds revision steps and the forced output step
C8_Witness ==
    /\ pc = "done"
    /\ \E i \in StepIds : steps[i].instruction = "revision"
    /\ \E i \in StepIds : steps[i].instruction = "final"

\* the step a history entry was written for
StepOf(entry) == steps[entry.step_id]

\* C9: a step whose generation call raised ends failed with its error set,
\* and the run still reaches state completed with a summary that reports
\* steps_failed >= 1.
C9_FailedStepRunCompletes ==
    /\ [](\A k \in 1..Len(conversation_history) :
            ~conversation_history[k].result.success
                => /\ StepOf(conversation_history[k]).status = "failed"
                   /\ StepOf(conversation_history[k]).error # "None")
    /\ (\E i \in StepIds : steps[i].status = "failed")
          ~> (state = "completed" /\ get_workflow_summary.steps_failed >= 1)

C11_CompletedIsFinal ==
    [][state = "completed"
          => /\ state' = "completed"
             /\ steps' = steps
             /\ iteration_count' = iteration_count
             /\ conversation_history' = conversation_history
             /\ final_output' = final_output]_vars

\* the moves of WorkflowStep.status the code of _execute_step makes
StatusMove(before, after) ==
    \/ after = before
    \/ before = "pending" /\ after = "in_progress"
    \/ before = "in_progress" /\ after \in {"completed", "failed"}

\* C12: the status of a step only moves pending -> in_progress -> completed
\* or failed, never backward, and the output_data of a step that is
\* completed or failed never changes afterwards.
C12_StatusMovesForward ==
    [][\A i \in StepIds :
          i <= Len(steps')
              => /\ StatusMove(steps[i].status, steps'[i].status)
                 /\ steps[i].status \in {"completed", "failed"}
                       => steps'[i].output_data = steps[i].output_data]_vars

\* a step is in progress after an earlier step completed and another failed
C12_Witness ==
    /\ pc = "execute"
    /\ steps[idx].status = "in_progress"
    /\ \E i \in 1..(idx - 1) : steps[i].status = "completed"
    /\ \E i \in 1..(idx - 1) : steps[i].status = "failed"

\* what identifies a step of the list: the fields no code assigns after the
\* step is constructed
StepIdentity(step) == <<step.step_id, step.agent, step.instruction>>

\* C13: after planning, workflow.steps is append-only for the rest of the
\* run: in two successive states the earlier list is a prefix of the later
\* one, so no step is deleted, replaced or moved.
C13_StepsAppendOnly ==
    [][Planned
          => /\ Len(steps') >= Len(steps)
             /\ \A i \in StepIds :
                   StepIdentity(steps'[i]) = StepIdentity(steps[i])]_vars

\* the forced output step has been appended behind the steps of a revision
\* round
C13_Witness ==
    /\ pc = "final_execute"
    /\ steps[Len(steps)].instruction = "final"
    /\ \E i \in StepIds : steps[i].instruction = "review again"

\* planning fell back to the default sequence (lines 208-216)
DefaultPlan == Len(steps) >= 5 /\ steps[1].instruction = "default"

\* every step executed so far succeeded
EveryStepSucceeded ==
    \A k \in 1..Len(conversation_history) : conversation_history[k].result.success

\* no reply of the reviewer asks for a revision: none is an object that
\* lists additional work or says it is not ready for output
NoRevisionRequested ==
    \A i \in StepIds :
        (steps[i].agent = AgentRole.REVIEW /\ steps[i].status = "completed")
            => ~(steps[i].output_data.parsed.kind = "obj" /\ Verdict(i))

\* the for loop of the first iteration is over
LoopOver == pc \in {"final", "final_execute", "done", "returned", "raised"}

\* C14: with the fallback plan, every step succeeding and no revision
\* requested by the reviewer, run_workflow executes exactly the five steps
\* triage, research, compliance, review, output, each once, and ends with
\* iteration_count = 1 and final_output the raw response of the output step.
C14_DefaultPathRun ==
    (LoopOver /\ DefaultPlan /\ EveryStepSucceeded /\ NoRevisionRequested)
        => /\ pc # "raised"
           /\ Len(steps) = 5
           /\ [i \in 1..5 |-> steps[i].agent]
                  = <<AgentRole.TRIAGE, AgentRole.RESEARCH, AgentRole.COMPLIANCE,
                      AgentRole.REVIEW, AgentRole.OUTPUT>>
           /\ Len(conversation_history) = 5
           /\ iteration_count = 1
           /\ pc \in {"done", "returned"}
                 => final_output = steps[5].output_data.raw_response

\* an agent name that AgentRole[name.upper()] has no member for
UnknownName(name) == name # MissingKey /\ upper(name) \notin DOMAIN AgentRole

\* a revision round has just appended its steps: the review step it ends
\* with is the last step of the list
RoundAppended ==
    /\ pc = "while"
    /\ steps # <<>>
    /\ steps[Len(steps)].instruction = "review again"

\* the position of the first step the round appended
RoundStart ==
    CHOOSE b \in StepIds :
        /\ \A i \in b..(Len(steps) - 1) : steps[i].instruction = "revision"
        /\ b > 1 => steps[b - 1].instruction # "revision"

\* the agent names of the work items the round read from the reviewers
RoundItems == work_items_from(SubSeq(steps, 1, RoundStart - 1), 1).value

\* C15: an agent name of the planner's workflow_steps or of the reviewer's
\* additional_work_needed that is no known role yields a step of the
\* research role, and no error is raised: the step is in the list.
C15_UnknownAgentIsResearch ==
    /\ (Planned /\ runs = 1)
          => /\ Len(steps) >= Len(workflow_steps)
             /\ \A k \in 1..Len(workflow_steps) :
                   UnknownName(workflow_steps[k])
                       => steps[k].agent = AgentRole.RESEARCH
    /\ RoundAppended
          => /\ Len(RoundItems) = Len(steps) - RoundStart
             /\ \A k \in 1..Len(RoundItems) :
                   UnknownName(RoundItems[k])
                       => steps[RoundStart + k - 1].agent = AgentRole.RESEARCH

\* a revision round has appended the step of an unknown agent name to a
\* plan that named an unknown agent too
C15_Witness ==
    /\ RoundAppended
    /\ \E k \in 1..Len(workflow_steps) : UnknownName(workflow_steps[k])
    /\ \E k \in 1..Len(RoundItems) : UnknownName(RoundItems[k])

\* C16: workflow.final_output is unset in every state before completion, is
\* assigned exactly once during a run, and is set whenever the state is
\* completed.
C16_FinalOutputSetOnce ==
    /\ [](state # "completed" => final_output = NoneValue)
    /\ [](state = "completed" => final_output # NoneValue)
    /\ [][final_output' # final_output
             => final_output = NoneValue /\ state' = "completed"]_vars

\* the run has completed with the raw response of its output step
C16_Witness ==
    /\ pc = "done"
    /\ state = "completed"
    /\ final_output \notin {NoneValue, EmptyString}

\* the steps _execute_step has finished
ExecutedSteps == {i \in StepIds : steps[i].status \in {"completed", "failed"}}

\* C17: workflow.conversation_history is append-only and holds exactly one
\* entry per executed step, succeeded or failed: its length is the number of
\* steps whose status is completed or failed.
C17_OneEntryPerExecutedStep ==
    /\ [](Len(conversation_history) = Cardinality(ExecutedSteps))
    /\ [][/\ Len(conversation_history') >= Len(conversation_history)
           /\ SubSeq(conversation_history', 1, Len(conversation_history))
                 = conversation_history]_vars

\* the log holds the entry of a failed step and of a completed one while a
\* step is still pending
C17_Witness ==
    /\ pc = "for"
    /\ \E k \in 1..Len(conversation_history) : conversation_history[k].result.success
    /\ \E k \in 1..Len(conversation_history) : ~conversation_history[k].result.success
    /\ \E i \in StepIds : steps[i].status = "pending"

\* the workflow and the orchestrator: what get_workflow_summary could reach
workflow_vars ==
    <<state, steps, conversation_history, final_output, iteration_count,
      max_iterations, search_client>>

\* C18: get_workflow_summary changes nothing in the workflow or the
\* orchestrator, and its result has steps_executed = number of completed
\* steps, steps_failed = number of failed steps, iterations =
\* iteration_count and state = the state of the workflow.
C18_SummaryIsProjection ==
    [][summary' # summary
          => /\ workflow_vars' = workflow_vars
             /\ summary'.steps_executed
                   = Cardinality({i \in StepIds : steps[i].status = "completed"})
             /\ summary'.steps_failed
                   = Cardinality({i \in StepIds : steps[i].status = "failed"})
             /\ summary'.iterations = iteration_count
             /\ summary'.state = state]_vars

\* the caller holds the summary of a run with completed, failed and
\* pending steps
C18_Witness ==
    /\ pc = "returned"
    /\ summary.state = "completed"
    /\ summary.steps_executed >= 1
    /\ summary.steps_failed >= 1
    /\ \E i \in StepIds : steps[i].status = "pending"

\* the progress events the consumer has received, in the order received
Delivered == SelectSeq(sent, LAMBDA e : e.type # "result")

\* C19: every event the callback emitted is delivered to the consumer
\* exactly once and in emission order, whatever the interleaving of the run
\* thread and the polling loop: what was delivered is at every moment the
\* first last_sent events of the list, and it is the whole list when the
\* stream ends.
C19_EventsDeliveredInOrder ==
    /\ last_sent <= Len(events)
    /\ Delivered = SubSeq(events, 1, last_sent)
    /\ gen = "closed" => Delivered = events

\* the consumer has received events and is two or more events behind the
\* thread, which is still running
C19_Witness ==
    /\ gen = "inner"
    /\ thread_is_alive
    /\ last_sent >= 1
    /\ Len(events) >= last_sent + 2

\* C20: every stream of stream_workflow ends with exactly one result event,
\* which carries the summary and comes after every progress event, also
\* when the run thread ended with an exception.
C20_StreamEndsWithResult ==
    gen = "closed"
        => /\ sent # <<>>
           /\ sent[Len(sent)] = ResultEvent
           /\ \A k \in 1..(Len(sent) - 1) : sent[k].type # "result"
           /\ summary # NoSummary

\* C21: in the streaming variant the run never waits for the consumer: once
\* started it reaches state completed, also when the consumer stops reading
\* at any point.
C21_RunCompletesWithoutConsumer == (pc = "plan") ~> (state = "completed")

\* C22: the callback is advisory: for the same request and the same backend
\* replies, run_workflow without a callback makes the calls the run with a
\* callback made, in the same order, and ends where that run ended, with
\* the same state, iteration_count, steps, history of executed steps and
\* final_output.
C22_CallbackIsAdvisory ==
    mode = "replay"
        => /\ pc = "plan" => ENABLED PlanWorkflow
           /\ pc = "execute" => ENABLED ExecuteStepEnd
           /\ pc = "final_execute" => ENABLED FinalStepEnd
           /\ pc \in {"done", "raised"}
                 => RunEnd = first_run /\ cursor = Len(replies)

\* the run without a callback has ended like a run whose callback reported
\* a revision round, a failed step and the end of the workflow
C22_Witness ==
    /\ mode = "replay"
    /\ pc = "done"
    /\ \E k \in 1..Len(events) : events[k].type = "revision"
    /\ \E k \in 1..Len(events) : events[k].type = "complete"
    /\ \E i \in StepIds : steps[i].status = "failed"

\* C23: no step is executed while the workflow state is needs_revision: the
\* state is in_progress again before a step appended by a revision round
\* executes.
C23_NoStepRunsInNeedsRevision == Executing => state # "needs_revision"

\* the work items of the governing reviewer step: the latest completed
\* reviewer step with parsed output
GoverningItems ==
    IF ParsedReviews = {}
    THEN <<>>
    ELSE steps[Max(ParsedReviews)].output_data.parsed.additional_work_needed

\* C24: in every revision round, the second and later ones included, the
\* steps appended are one step per work item of the governing reviewer
\* step, in the reviewer's order, followed by one reviewer step, and none
\* when that reviewer reported no work item.
C24_RoundFollowsGoverningReviewer ==
    [][(pc = "check" /\ pc' = "while")
          => LET appended == SubSeq(steps', Len(steps) + 1, Len(steps'))
                 items == GoverningItems
             IN  [k \in 1..Len(appended) |-> appended[k].agent]
                   = IF items = <<>>
                     THEN <<>>
                     ELSE [k \in 1..Len(items) |-> role_of_name(items[k])]
                             \o <<AgentRole.REVIEW>>]_vars

\* the positions of the completed output steps, and of the output steps the
\* orchestrator appended after the loop
CompletedOutputs ==
    {i \in StepIds : steps[i].agent = AgentRole.OUTPUT /\ steps[i].status = "completed"}

ForcedOutputs == {i \in StepIds : steps[i].instruction = "final"}

\* C25: after the loop final_output is the raw response of the completed
\* output step at the highest position; when there is none, exactly one
\* output step is appended at the next position and executed, and its raw
\* response becomes final_output.
C25_FinalOutputFromLatestOutputStep ==
    pc \in {"done", "returned"}
        => IF ForcedOutputs = {}
           THEN /\ CompletedOutputs # {}
                /\ final_output = steps[Max(CompletedOutputs)].output_data.raw_response
           ELSE /\ ForcedOutputs = {Len(steps)}
                /\ steps[Len(steps)].step_id = Len(steps)
                /\ steps[Len(steps)].agent = AgentRole.OUTPUT
                /\ steps[Len(steps)].status \in {"completed", "failed"}
                /\ CompletedOutputs \subseteq {Len(steps)}
                /\ final_output = steps[Len(steps)].output_data.raw_response

\* the run ended on the forced output step although the plan held an
\* output step, which failed
C25_Witness ==
    /\ pc = "done"
    /\ ForcedOutputs # {}
    /\ steps[Len(steps)].status = "completed"
    /\ \E i \in 1..(Len(steps) - 1) :
          steps[i].agent = AgentRole.OUTPUT /\ steps[i].status = "failed"

\* C26: within a run the steps are executed one at a time, in strictly
\* ascending position order, and a completed step is never executed again
\* in a later iteration: the log of executed steps is strictly ascending.
C26_StepsRunOnceInOrder ==
    /\ Cardinality({i \in StepIds : steps[i].status = "in_progress"}) <= 1
    /\ \A k \in 1..(Len(conversation_history) - 1) :
          conversation_history[k].step_id < conversation_history[k + 1].step_id
    /\ Executing
          => \A k \in 1..Len(conversation_history) :
                conversation_history[k].step_id < steps[idx].step_id

\* a later iteration is executing an appended step, the steps of the first
\* iteration being completed
C26_Witness ==
    /\ pc = "execute"
    /\ iteration_count >= 2
    /\ steps[idx].instruction = "revision"
    /\ \A i \in 1..(idx - 1) : steps[i].status = "completed"

\* the workflow has no reviewer step, or each of its reviewer steps failed
\* or gave an output that did not parse
NoReviewerVerdict ==
    \A i \in StepIds :
        steps[i].agent = AgentRole.REVIEW
            => \/ steps[i].status # "completed"
               \/ steps[i].output_data.parsed.kind = "none"

\* C27: _check_if_revision_needed returns false when the workflow has no
\* reviewer step, when every reviewer step failed and when the reviewer's
\* output did not parse; the run then leaves the loop without appending
\* steps.
C27_NoVerdictMeansNoRevision ==
    [][(pc = "check" /\ NoReviewerVerdict)
          => /\ ~revision_needed'
             /\ pc' = "final"
             /\ steps' = steps
             /\ iteration_count' = iteration_count]_vars

\* the loop was left after one reviewer step failed and another gave an
\* output that did not parse
C27_Witness ==
    /\ pc = "final"
    /\ iteration_count = 1
    /\ max_iterations > 1
    /\ NoReviewerVerdict
    /\ \E i \in StepIds : steps[i].agent = AgentRole.REVIEW /\ steps[i].status = "failed"
    /\ \E i \in StepIds : steps[i].agent = AgentRole.REVIEW /\ steps[i].status = "completed"

\* C28: the knowledge base is queried only during a step whose agent has
\* can_query_knowledge set: never during a planner, reviewer or formatter
\* call, in any run.
C28_OnlyKnowledgeAgentsSearch ==
    /\ searches \cap {AgentRole.ORCHESTRATOR, AgentRole.REVIEW, AgentRole.OUTPUT} = {}
    /\ \A i \in StepIds :
          steps[i].agent \in {AgentRole.REVIEW, AgentRole.OUTPUT}
              => steps[i].knowledge \in {"not_called"}

\* a run with a search client has returned: steps of knowledge agents
\* searched, and a reviewer and an output step ran too
C28_Witness ==
    /\ pc = "done"
    /\ search_client
    /\ searches # {}
    /\ \E i \in StepIds : steps[i].agent = AgentRole.REVIEW /\ steps[i].status = "completed"
    /\ \E i \in StepIds : steps[i].agent = AgentRole.OUTPUT /\ steps[i].status = "completed"

\* C29: whenever run_workflow ends with state completed no step of the
\* workflow is pending: every step is completed or failed, also when the
\* run stopped at the iteration cap.
C29_NoPendingStepAtCompletion ==
    (pc \in {"done", "returned"} /\ state = "completed")
        => \A i \in StepIds : steps[i].status \in {"completed", "failed"}

\* C30: the workflow states failed and awaiting_review are never reached:
\* the state is always one of pending, in_progress, needs_revision and
\* completed, and a run whose forced final formatter step fails still ends
\* in completed, with the empty string as final_output.
C30_OnlyFourStatesReached ==
    /\ state \in {"pending", "in_progress", "needs_revision", "completed"}
    /\ (/\ pc = "done"
        /\ ForcedOutputs # {}
        /\ \A i \in ForcedOutputs : steps[i].status = "failed")
            => (state = "completed" /\ final_output = EmptyString)

\* a run has ended on a forced formatter step that failed
C30_Witness ==
    /\ pc = "done"
    /\ ForcedOutputs = {Len(steps)}
    /\ steps[Len(steps)].status = "failed"
    /\ steps[Len(steps)].error # "None"
    /\ state = "completed"
    /\ final_output = EmptyString

====
